---- MODULE Spec2Model ----
(***************************************************************************)
(* The detection-and-scoring engine of the ICT terminal:                   *)
(* analyzePriceData of src/services/technicalAnalysis.ts (the extended,    *)
(* 4-factor variant with the trade plan) and of src/unnamed/part_003 (the  *)
(* base, 3-factor variant).                                                *)
(*                                                                         *)
(* Numbers.  Prices are whole ticks.  The two thresholds of the detectors  *)
(* (0.3 and 1.2) are compared exactly, multiplied out by 10.  config       *)
(* .slBuffer is held in tenths of a percent (the host's 0.1 is 1) and      *)
(* config.rrRatio in tenths (the host's 2.0 is 20).  The prices of the     *)
(* trade plan (entryPrice, slPrice, tpPrice) are held in units of          *)
(* 1/PriceScale tick, which makes them whole numbers; pnlEstimate is the   *)
(* fraction <<numerator, denominator>>.  A field the code leaves undefined *)
(* is the empty sequence <<>>, a field it sets to v is <<v>>.              *)
(* Sequences are 1-based here and 0-based in the code: At(candles, i) is   *)
(* the code's candles[i], and every index the engine reports (index, idx)  *)
(* is the code's 0-based one.  The engine never reads Candle.volume, which *)
(* is left out.                                                            *)
(***************************************************************************)
EXTENDS Integers, Sequences, FiniteSets, TLC

\* The longest bar sequence handed to the engine.
MaxBars == 5

\* The longest bar sequence of the structure runs.
MaxStructureBars == 7

\* The longest bar sequence of the stepped runs.
MaxStepBars == 5

\* The longest bar sequence of the detector runs.
MaxDetectorBars == 5

\* The last bar time the exchange reaches in the host runs.
MaxClock == 2

\* The most live messages on their way to the host at once.
MaxInFlight == 2

\* The most refresh responses on their way to the host at once.
MaxRefreshes == 1

\* fetchBinanceKlines(currentSymbol, currentInterval, 150)
HistoryLimit == 150

\* if (updatedData.length > 200) updatedData.shift()
MaxCandles == 200

\* 100 (the percent of slBuffer / 100) x 10 (slBuffer in tenths) x 10
\* (rrRatio in tenths).
PriceScale == 100 * 10 * 10

---------------------------------------------------------------------------
(* Inputs *)

Candle(time, open, high, low, close) ==
  [time |-> time, open |-> open, high |-> high, low |-> low, close |-> close]

\* The bar shapes <<open, high, low, close>> the sequences are drawn from,
\* all with low <= open, close <= high: a rising and two falling bars of
\* different sizes, a flat bar at the top and a flat bar at the bottom with
\* an upper wick.  Between them they produce zones, blocks, pivots and
\* sweeps of both directions within MaxBars bars.
Shapes ==
  { <<1, 3, 1, 3>>, <<3, 3, 2, 2>>, <<4, 4, 1, 1>>, <<4, 4, 4, 4>>, <<1, 2, 1, 1>> }

\* The shapes of the structure runs: a flat bar and two outside bars, the
\* second engulfing the first, so that a bar can be a high and a low pivot
\* at once and successive pivots can rise or fall.
StructureShapes ==
  { <<3, 3, 3, 3>>, <<3, 4, 2, 3>>, <<3, 5, 1, 3>> }

SwingLengths == {1, 2}
MinConfluences == {1, 2}

\* The configs of the main runs: the host's obLookback, rrRatio (2.0) and
\* slBuffer (0.1), every swingLength and minConfluence above.
Config ==
  [swingLength : SwingLengths, obLookback : {10},
   minConfluence : MinConfluences, rrRatio : {20}, slBuffer : {1}]

\* The configs of the structure runs: any structure event fires a signal
\* (minConfluence 1) and the stop has no buffer (slBuffer 0, the least the
\* data model allows).
StructureConfig ==
  [swingLength : SwingLengths, obLookback : {10},
   minConfluence : {1}, rrRatio : {20}, slBuffer : {0}]

\* The shapes of the stepped runs, <<open, high, low, close>> counted from
\* the bar's own low: a rising bar of body 3 and a falling bar of range 2, so
\* that the rising bar after the falling one is an impulse (3 > 1.2 * 2).
StepShapes == { <<0, 3, 0, 3>>, <<2, 2, 0, 0>> }

\* How far the low of a new bar lies above the low of the bar before it.
Steps == {-1, 1, 2}

\* The configs of the stepped runs: any factor fires a signal, and the
\* risk-reward multiple is 1.5 or 2.0.
StepConfig ==
  [swingLength : SwingLengths, obLookback : {10},
   minConfluence : {1}, rrRatio : {15, 20}, slBuffer : {1}]

\* The shapes of the detector runs: two flat bars one tick apart, and rising
\* and falling bars of range 3 and 4 (a gap of one tick is more than 0.3 of
\* the one and not of the other).
DetectorShapes ==
  { <<1, 1, 1, 1>>, <<2, 2, 2, 2>>, <<1, 4, 1, 4>>, <<1, 5, 1, 5>>,
    <<4, 4, 1, 1>>, <<5, 5, 1, 1>> }

\* The configs of the detector runs.
DetectorConfig ==
  [swingLength : {1}, obLookback : {10},
   minConfluence : {1}, rrRatio : {20}, slBuffer : {1}]

\* Other values of config.obLookback than the host's 10, shorter than the
\* sequences of the runs.
ObLookbacks == {1, 3}

\* The shapes of the bars of the live stream in the host runs, a rising and a
\* falling one, and the shape of the bars of a historical fetch.
HostShapes == { <<1, 3, 1, 3>>, <<4, 4, 1, 1>> }
HistoryShape == <<1, 3, 1, 3>>

\* The shape of the bars of the live stream in the runs where the user changes
\* the pair or the config, and in the runs with a full window: a falling bar.
SessionShape == <<4, 4, 1, 1>>

\* The config the host starts with (swingLength 5, obLookback 10,
\* minConfluence 2, rrRatio 2.0, slBuffer 0.1).
HostConfig ==
  [swingLength |-> 5, obLookback |-> 10, minConfluence |-> 2, rrRatio |-> 20,
   slBuffer |-> 1]

\* The pair the host starts with, and the pairs the user chooses among (the
\* first two of SUPPORTED_SYMBOLS).
DefaultSymbol == "BTCUSDT"
Symbols == {"BTCUSDT", "ETHUSDT"}

\* The values the user moves the swingLength and the minConfluence slider to.
ConfigEdits ==
  { <<"swingLength", 2>>, <<"swingLength", 5>>,
    <<"minConfluence", 1>>, <<"minConfluence", 2>> }

\* The three model calls of the assistant panel.
Modes == {"fast", "search", "deep"}

\* The messages of the errors a model call fails with, character by
\* character: "", "429", "HTTP 429", "quota", "Quota", "RESOURCE_EXHAUSTED"
\* and "timeout".
ErrorMessages ==
  { <<>>,
    <<"4", "2", "9">>,
    <<"H", "T", "T", "P", " ", "4", "2", "9">>,
    <<"q", "u", "o", "t", "a">>,
    <<"Q", "u", "o", "t", "a">>,
    <<"R", "E", "S", "O", "U", "R", "C", "E", "_",
      "E", "X", "H", "A", "U", "S", "T", "E", "D">>,
    <<"t", "i", "m", "e", "o", "u", "t">> }

\* What a failed model call throws: undefined, or an error with a message (an
\* error without a message reads as one with the message "").
Errors == {<<>>} \cup {<<[message |-> m]>> : m \in ErrorMessages}

\* The grounding chunks of a response: none, or a list of chunks whose web
\* part is missing or has a uri and a title, either of which may be "".
GroundingChunks ==
  { <<>>,
    << <<>> >>,
    << << <<>>, <<[uri |-> "https://a", title |-> "News"]>> >> >>,
    << << <<[uri |-> "https://a", title |-> ""]>>,
          <<[uri |-> "", title |-> "News"]>> >> >> }

\* What a model call settles with: a response (text "" stands for a missing or
\* empty text) or an error.
Outcomes ==
  [kind : {"response"}, text : {"", "Outlook"}, groundingChunks : GroundingChunks]
  \cup [kind : {"error"}, error : Errors]

\* candles[i] of the code (0-based).
At(candles, i) == candles[i + 1]

Abs(x) == IF x < 0 THEN -x ELSE x

Undefined == <<>>
Some(v) == <<v>>
IsSet(x) == x # <<>>
Val(x) == x[1]

---------------------------------------------------------------------------
(* 1. Fair value gaps *)

\* Faulty variant: a gap of any size counts.
isBullishFVGAnySize(c0, c1, c2) ==
  /\ c2.high < c0.low
  /\ c1.close > c1.open

isBullishFVG(c0, c1, c2) ==
  /\ c2.high < c0.low
  /\ c1.close > c1.open
  /\ (c0.low - c2.high) * 10 > (c1.high - c1.low) * 3

isBearishFVG(c0, c1, c2) ==
  /\ c2.low > c0.high
  /\ c1.close < c1.open
  /\ (c2.low - c0.high) * 10 > (c1.high - c1.low) * 3

bullishFVG(c0, c1, c2, i) ==
  [type |-> "bullish", top |-> c0.low, bottom |-> c2.high,
   index |-> i - 1, startTime |-> c1.time, isValid |-> TRUE]

bearishFVG(c0, c1, c2, i) ==
  [type |-> "bearish", top |-> c2.low, bottom |-> c0.high,
   index |-> i - 1, startTime |-> c1.time, isValid |-> TRUE]

\* Faulty variant: each new zone is put at the front of the list.
fvgLoopNewestFirst(candles, i, fvgs) ==
  LET passes == IF i < Len(candles) THEN Len(candles) - i ELSE 0
      pushes == [k \in 1..(2 * passes) |->
                   LET at == i + ((k - 1) \div 2)
                       c0 == At(candles, at)
                       c1 == At(candles, at - 1)
                       c2 == At(candles, at - 2)
                   IN IF k % 2 = 1
                      THEN IF isBullishFVG(c0, c1, c2)
                           THEN Some(bullishFVG(c0, c1, c2, at)) ELSE Undefined
                      ELSE IF isBearishFVG(c0, c1, c2)
                           THEN Some(bearishFVG(c0, c1, c2, at)) ELSE Undefined]
      pushed == SelectSeq(pushes, IsSet)
  IN [k \in 1..Len(pushed) |-> Val(pushed[Len(pushed) + 1 - k])] \o fvgs

\* The loop from bar i on, with the zones pushed so far: each pass tries the
\* bullish push and then the bearish push on the bars i, i - 1 and i - 2.
fvgLoop(candles, i, fvgs) ==
  LET passes == IF i < Len(candles) THEN Len(candles) - i ELSE 0
      pushes == [k \in 1..(2 * passes) |->
                   LET at == i + ((k - 1) \div 2)
                       c0 == At(candles, at)
                       c1 == At(candles, at - 1)
                       c2 == At(candles, at - 2)
                   IN IF k % 2 = 1
                      THEN IF isBullishFVG(c0, c1, c2)
                           THEN Some(bullishFVG(c0, c1, c2, at)) ELSE Undefined
                      ELSE IF isBearishFVG(c0, c1, c2)
                           THEN Some(bearishFVG(c0, c1, c2, at)) ELSE Undefined]
      pushed == SelectSeq(pushes, IsSet)
  IN fvgs \o [k \in 1..Len(pushed) |-> Val(pushed[k])]

detectFVGs(candles) == fvgLoop(candles, 2, <<>>)

---------------------------------------------------------------------------
(* 2. Order blocks *)

isBullishOB(c0, c1) ==
  /\ c0.close > c0.open
  /\ c1.close < c1.open
  /\ Abs(c0.close - c0.open) * 10 > (c1.high - c1.low) * 12

\* Faulty variant: the size of the impulse is measured against the range of
\* the impulse bar itself, not of the bar before it.
isBearishOBOwnRange(c0, c1) ==
  /\ c0.close < c0.open
  /\ c1.close > c1.open
  /\ Abs(c0.close - c0.open) * 10 > (c0.high - c0.low) * 12

\* Faulty variant: the directions of the two bars are not tested.
isBearishOBAnyDirection(c0, c1) ==
  Abs(c0.close - c0.open) * 10 > (c1.high - c1.low) * 12

isBearishOB(c0, c1) ==
  /\ c0.close < c0.open
  /\ c1.close > c1.open
  /\ Abs(c0.close - c0.open) * 10 > (c1.high - c1.low) * 12

\* Faulty variant: top and bottom of the zone are exchanged.
orderBlockSwapped(type, c1, i) ==
  [type |-> type, top |-> c1.low, bottom |-> c1.high,
   index |-> i - 1, startTime |-> c1.time, isValid |-> TRUE]

orderBlock(type, c1, i) ==
  [type |-> type, top |-> c1.high, bottom |-> c1.low,
   index |-> i - 1, startTime |-> c1.time, isValid |-> TRUE]

obLoop(candles, i, orderBlocks) ==
  LET passes == IF i < Len(candles) THEN Len(candles) - i ELSE 0
      pushes == [k \in 1..(2 * passes) |->
                   LET at == i + ((k - 1) \div 2)
                       c0 == At(candles, at)
                       c1 == At(candles, at - 1)
                   IN IF k % 2 = 1
                      THEN IF isBullishOB(c0, c1)
                           THEN Some(orderBlock("bullish", c1, at)) ELSE Undefined
                      ELSE IF isBearishOB(c0, c1)
                           THEN Some(orderBlock("bearish", c1, at)) ELSE Undefined]
      pushed == SelectSeq(pushes, IsSet)
  IN orderBlocks \o [k \in 1..Len(pushed) |-> Val(pushed[k])]

detectOrderBlocks(candles) == obLoop(candles, 1, <<>>)

---------------------------------------------------------------------------
(* 3. Pivots, liquidity sweeps, break of structure *)

\* Faulty variant: the comparison with the neighbours is not strict.
isPivotLoose(candles, i, len, type) ==
  \A j \in 1..len :
    IF type = "high"
    THEN ~(At(candles, i).high < At(candles, i - j).high
           \/ At(candles, i).high < At(candles, i + j).high)
    ELSE ~(At(candles, i).low > At(candles, i - j).low
           \/ At(candles, i).low > At(candles, i + j).low)

\* Faulty variant: the inner loop stops one short (j < len instead of j <= len).
isPivotShortWindow(candles, i, len, type) ==
  \A j \in 1..(len - 1) :
    IF type = "high"
    THEN ~(At(candles, i).high <= At(candles, i - j).high
           \/ At(candles, i).high <= At(candles, i + j).high)
    ELSE ~(At(candles, i).low >= At(candles, i - j).low
           \/ At(candles, i).low >= At(candles, i + j).low)

\* Faulty variant: only the bars to the left are compared.
isPivotLeftOnly(candles, i, len, type) ==
  \A j \in 1..len :
    IF type = "high"
    THEN ~(At(candles, i).high <= At(candles, i - j).high)
    ELSE ~(At(candles, i).low >= At(candles, i - j).low)

\* The inner loop over j: isPivot stays true iff no j clears it.
isPivot(candles, i, len, type) ==
  \A j \in 1..len :
    IF type = "high"
    THEN ~(At(candles, i).high <= At(candles, i - j).high
           \/ At(candles, i).high <= At(candles, i + j).high)
    ELSE ~(At(candles, i).low >= At(candles, i - j).low
           \/ At(candles, i).low >= At(candles, i + j).low)

\* Faulty variant: val is the high of the bar for pivots of both kinds.
pivotOfHighs(candles, i, type) ==
  [val |-> At(candles, i).high, idx |-> i, time |-> At(candles, i).time]

pivot(candles, i, type) ==
  [val |-> IF type = "high" THEN At(candles, i).high ELSE At(candles, i).low,
   idx |-> i, time |-> At(candles, i).time]

\* Faulty variant: the scan runs over every bar and a neighbour beyond either end
\* of the sequence is skipped.
pivotLoopClamped(candles, len, type, i, p) ==
  LET passes == IF i < Len(candles) THEN Len(candles) - i ELSE 0
      pushes == [k \in 1..passes |->
                   LET at == i + k - 1
                       ok == \A j \in 1..len :
                               /\ (at - j >= 0 =>
                                     IF type = "high"
                                     THEN At(candles, at).high > At(candles, at - j).high
                                     ELSE At(candles, at).low < At(candles, at - j).low)
                               /\ (at + j < Len(candles) =>
                                     IF type = "high"
                                     THEN At(candles, at).high > At(candles, at + j).high
                                     ELSE At(candles, at).low < At(candles, at + j).low)
                   IN IF ok THEN Some(pivot(candles, at, type)) ELSE Undefined]
      pushed == SelectSeq(pushes, IsSet)
  IN p \o [k \in 1..Len(pushed) |-> Val(pushed[k])]

findPivotsClamped(candles, len, type) ==
  pivotLoopClamped(candles, len, type, 0, <<>>)

pivotLoop(candles, len, type, i, p) ==
  LET passes == IF i < Len(candles) - len THEN Len(candles) - len - i ELSE 0
      pushes == [k \in 1..passes |->
                   LET at == i + k - 1
                   IN IF isPivot(candles, at, len, type)
                      THEN Some(pivot(candles, at, type)) ELSE Undefined]
      pushed == SelectSeq(pushes, IsSet)
  IN p \o [k \in 1..Len(pushed) |-> Val(pushed[k])]

findPivots(candles, len, type) == pivotLoop(candles, len, type, len, <<>>)

\* candles[candles.length - 1]: undefined on the empty sequence.
lastCandleOf(candles) ==
  IF Len(candles) = 0 THEN Undefined ELSE Some(At(candles, Len(candles) - 1))

\* Faulty variant: a low that only touches the pivot counts as a sweep.
detectBullSweepOnTouch(lowPivots, lastCandle) ==
  /\ Len(lowPivots) > 0
  /\ LET lastLow == lowPivots[Len(lowPivots)].val
     IN lastCandle.low <= lastLow /\ lastCandle.close > lastLow

detectBullSweep(lowPivots, lastCandle) ==
  /\ Len(lowPivots) > 0
  /\ LET lastLow == lowPivots[Len(lowPivots)].val
     IN lastCandle.low < lastLow /\ lastCandle.close > lastLow

detectBearSweep(highPivots, lastCandle) ==
  /\ Len(highPivots) > 0
  /\ LET lastHigh == highPivots[Len(highPivots)].val
     IN lastCandle.high > lastHigh /\ lastCandle.close < lastHigh

bosEvent(direction, last) ==
  [type |-> "BOS", direction |-> direction, price |-> last.val,
   index |-> last.idx, time |-> last.time]

\* Faulty variant: the last high pivot is compared with the first one.
bullishBOSAgainstFirst(highPivots) ==
  IF Len(highPivots) >= 2
     /\ highPivots[Len(highPivots)].val > highPivots[1].val
  THEN <<bosEvent("bullish", highPivots[Len(highPivots)])>>
  ELSE <<>>

bullishBOS(highPivots) ==
  IF Len(highPivots) >= 2
     /\ highPivots[Len(highPivots)].val > highPivots[Len(highPivots) - 1].val
  THEN <<bosEvent("bullish", highPivots[Len(highPivots)])>>
  ELSE <<>>

bearishBOS(lowPivots) ==
  IF Len(lowPivots) >= 2
     /\ lowPivots[Len(lowPivots)].val < lowPivots[Len(lowPivots) - 1].val
  THEN <<bosEvent("bearish", lowPivots[Len(lowPivots)])>>
  ELSE <<>>

\* Faulty variant: the bearish check runs, and pushes, before the bullish one.
detectStructureBearFirst(highPivots, lowPivots) ==
  bearishBOS(lowPivots) \o bullishBOS(highPivots)

\* The two pushes onto structure, bullish first.
detectStructure(highPivots, lowPivots) ==
  bullishBOS(highPivots) \o bearishBOS(lowPivots)

---------------------------------------------------------------------------
(* 4. Confluence scoring *)

inBullZone(z, lastCandle) ==
  z.type = "bullish" /\ lastCandle.low <= z.top /\ lastCandle.close >= z.bottom

\* Faulty variant: a bar that only touches the zone is not in it.
inBearZoneStrict(z, lastCandle) ==
  z.type = "bearish" /\ lastCandle.high > z.bottom /\ lastCandle.close < z.top

inBearZone(z, lastCandle) ==
  z.type = "bearish" /\ lastCandle.high >= z.bottom /\ lastCandle.close <= z.top

\* Faulty variant: the last element that passes is taken, not the first.
findBullZoneLast(zones, lastCandle) ==
  LET hits == SelectSeq(zones, LAMBDA z : inBullZone(z, Val(lastCandle)))
  IN IF zones = <<>> \/ hits = <<>> THEN Undefined ELSE Some(hits[Len(hits)])

\* Array.prototype.find: the first element that passes, else undefined.  The
\* callback, and with it lastCandle, is only evaluated on a non-empty array.
findBullZone(zones, lastCandle) ==
  LET hits == SelectSeq(zones, LAMBDA z : inBullZone(z, Val(lastCandle)))
  IN IF zones = <<>> \/ hits = <<>> THEN Undefined ELSE Some(Head(hits))

findBearZone(zones, lastCandle) ==
  LET hits == SelectSeq(zones, LAMBDA z : inBearZone(z, Val(lastCandle)))
  IN IF zones = <<>> \/ hits = <<>> THEN Undefined ELSE Some(Head(hits))

\* Array.prototype.some.
someBullZone(zones, lastCandle) ==
  zones # <<>> /\ \E k \in 1..Len(zones) : inBullZone(zones[k], Val(lastCandle))

someBearZone(zones, lastCandle) ==
  zones # <<>> /\ \E k \in 1..Len(zones) : inBearZone(zones[k], Val(lastCandle))

\* Faulty variant: Object.values(...).length without the filter.
scoreUnfiltered(details) == Len(<<details.ob, details.fvg, details.bos, details.sweep>>)

\* Faulty variant: the three factors of the base variant.
scoreWithoutSweep(details) ==
  Len(SelectSeq(<<details.ob, details.fvg, details.bos>>, LAMBDA b : b))

\* Object.values(details).filter(Boolean).length
score(details) ==
  Len(SelectSeq(<<details.ob, details.fvg, details.bos, details.sweep>>,
                LAMBDA b : b))

\* Faulty variant: the bearish threshold is tested first.
decideSignalBearFirst(bullScore, bearScore, minConfluence) ==
  IF bearScore >= minConfluence THEN "SELL"
  ELSE IF bullScore >= minConfluence THEN "BUY"
  ELSE "NEUTRAL"

\* if (bullScore >= min) BUY else if (bearScore >= min) SELL, else NEUTRAL
decideSignal(bullScore, bearScore, minConfluence) ==
  IF bullScore >= minConfluence THEN "BUY"
  ELSE IF bearScore >= minConfluence THEN "SELL"
  ELSE "NEUTRAL"

noPlan ==
  [entryPrice |-> Undefined, slPrice |-> Undefined, tpPrice |-> Undefined,
   rrRatio |-> Undefined, pnlEstimate |-> Undefined]

\* Faulty variant: the target lies one risk from the entry, whatever rrRatio is.
buyPlanUnitReward(lastCandle, currentBullOB, config) ==
  LET entryPrice == lastCandle.close * PriceScale
      baseSL == IF IsSet(currentBullOB) THEN Val(currentBullOB).bottom
                ELSE lastCandle.low
      slPrice == baseSL * (1000 - config.slBuffer) * 10
      risk == Abs(entryPrice - slPrice)
      tpPrice == entryPrice + risk
  IN [entryPrice |-> Some(entryPrice), slPrice |-> Some(slPrice),
      tpPrice |-> Some(tpPrice), rrRatio |-> Some(config.rrRatio),
      pnlEstimate |-> Some(<<(tpPrice - entryPrice) * 100, entryPrice>>)]

buyPlan(lastCandle, currentBullOB, config) ==
  LET entryPrice == lastCandle.close * PriceScale
      baseSL == IF IsSet(currentBullOB) THEN Val(currentBullOB).bottom
                ELSE lastCandle.low
      slPrice == baseSL * (1000 - config.slBuffer) * 10
      risk == Abs(entryPrice - slPrice)
      tpPrice == entryPrice + (risk * config.rrRatio) \div 10
  IN [entryPrice |-> Some(entryPrice), slPrice |-> Some(slPrice),
      tpPrice |-> Some(tpPrice), rrRatio |-> Some(config.rrRatio),
      pnlEstimate |-> Some(<<(tpPrice - entryPrice) * 100, entryPrice>>)]

\* Faulty variant: the entry is taken at the open of the last bar.
sellPlanEntryAtOpen(lastCandle, currentBearOB, config) ==
  LET entryPrice == lastCandle.open * PriceScale
      baseSL == IF IsSet(currentBearOB) THEN Val(currentBearOB).top
                ELSE lastCandle.high
      slPrice == baseSL * (1000 + config.slBuffer) * 10
      risk == Abs(slPrice - entryPrice)
      tpPrice == entryPrice - (risk * config.rrRatio) \div 10
  IN [entryPrice |-> Some(entryPrice), slPrice |-> Some(slPrice),
      tpPrice |-> Some(tpPrice), rrRatio |-> Some(config.rrRatio),
      pnlEstimate |-> Some(<<(entryPrice - tpPrice) * 100, entryPrice>>)]

sellPlan(lastCandle, currentBearOB, config) ==
  LET entryPrice == lastCandle.close * PriceScale
      baseSL == IF IsSet(currentBearOB) THEN Val(currentBearOB).top
                ELSE lastCandle.high
      slPrice == baseSL * (1000 + config.slBuffer) * 10
      risk == Abs(slPrice - entryPrice)
      tpPrice == entryPrice - (risk * config.rrRatio) \div 10
  IN [entryPrice |-> Some(entryPrice), slPrice |-> Some(slPrice),
      tpPrice |-> Some(tpPrice), rrRatio |-> Some(config.rrRatio),
      pnlEstimate |-> Some(<<(entryPrice - tpPrice) * 100, entryPrice>>)]

\* What a call that dereferences the undefined lastCandle ends with.
TypeError == [threw |-> "TypeError"]

\* Faulty variant: only the order blocks of the last config.obLookback bars are
\* kept.
analyzePriceDataLookback(cs, cfg) ==
  LET orderBlocks == SelectSeq(detectOrderBlocks(cs),
                               LAMBDA z : z.index >= Len(cs) - cfg.obLookback)
      fvgs == detectFVGs(cs)
      highPivots == findPivots(cs, cfg.swingLength, "high")
      lowPivots == findPivots(cs, cfg.swingLength, "low")
      lastCandle == lastCandleOf(cs)
      bullSweep == Len(lowPivots) > 0 /\ detectBullSweep(lowPivots, Val(lastCandle))
      bearSweep == Len(highPivots) > 0 /\ detectBearSweep(highPivots, Val(lastCandle))
      structure == detectStructure(highPivots, lowPivots)
      currentBullOB == findBullZone(orderBlocks, lastCandle)
      currentBearOB == findBearZone(orderBlocks, lastCandle)
      inBullOB == IsSet(currentBullOB)
      inBearOB == IsSet(currentBearOB)
      inBullFVG == someBullZone(fvgs, lastCandle)
      inBearFVG == someBearZone(fvgs, lastCandle)
      bullBOS == \E k \in 1..Len(structure) : structure[k].direction = "bullish"
      bearBOS == \E k \in 1..Len(structure) : structure[k].direction = "bearish"
      confluences ==
        [bullish |-> [ob |-> inBullOB, fvg |-> inBullFVG, bos |-> bullBOS,
                      sweep |-> bullSweep],
         bearish |-> [ob |-> inBearOB, fvg |-> inBearFVG, bos |-> bearBOS,
                      sweep |-> bearSweep]]
      bullScore == score(confluences.bullish)
      bearScore == score(confluences.bearish)
      signal == decideSignal(bullScore, bearScore, cfg.minConfluence)
      plan == IF signal = "BUY" THEN buyPlan(Val(lastCandle), currentBullOB, cfg)
              ELSE IF signal = "SELL" THEN sellPlan(Val(lastCandle), currentBearOB, cfg)
              ELSE noPlan
  IN IF signal # "NEUTRAL" /\ ~IsSet(lastCandle) THEN TypeError
     ELSE [bullScore |-> bullScore, bearScore |-> bearScore,
           confluences |-> confluences, orderBlocks |-> orderBlocks,
           fvgs |-> fvgs, structure |-> structure, signal |-> signal,
           entryPrice |-> plan.entryPrice, slPrice |-> plan.slPrice,
           tpPrice |-> plan.tpPrice, rrRatio |-> plan.rrRatio,
           pnlEstimate |-> plan.pnlEstimate]

analyzePriceData(cs, cfg) ==
  LET orderBlocks == detectOrderBlocks(cs)
      fvgs == detectFVGs(cs)
      highPivots == findPivots(cs, cfg.swingLength, "high")
      lowPivots == findPivots(cs, cfg.swingLength, "low")
      lastCandle == lastCandleOf(cs)
      bullSweep == Len(lowPivots) > 0 /\ detectBullSweep(lowPivots, Val(lastCandle))
      bearSweep == Len(highPivots) > 0 /\ detectBearSweep(highPivots, Val(lastCandle))
      structure == detectStructure(highPivots, lowPivots)
      currentBullOB == findBullZone(orderBlocks, lastCandle)
      currentBearOB == findBearZone(orderBlocks, lastCandle)
      inBullOB == IsSet(currentBullOB)
      inBearOB == IsSet(currentBearOB)
      inBullFVG == someBullZone(fvgs, lastCandle)
      inBearFVG == someBearZone(fvgs, lastCandle)
      bullBOS == \E k \in 1..Len(structure) : structure[k].direction = "bullish"
      bearBOS == \E k \in 1..Len(structure) : structure[k].direction = "bearish"
      confluences ==
        [bullish |-> [ob |-> inBullOB, fvg |-> inBullFVG, bos |-> bullBOS,
                      sweep |-> bullSweep],
         bearish |-> [ob |-> inBearOB, fvg |-> inBearFVG, bos |-> bearBOS,
                      sweep |-> bearSweep]]
      bullScore == score(confluences.bullish)
      bearScore == score(confluences.bearish)
      signal == decideSignal(bullScore, bearScore, cfg.minConfluence)
      plan == IF signal = "BUY" THEN buyPlan(Val(lastCandle), currentBullOB, cfg)
              ELSE IF signal = "SELL" THEN sellPlan(Val(lastCandle), currentBearOB, cfg)
              ELSE noPlan
  IN IF signal # "NEUTRAL" /\ ~IsSet(lastCandle) THEN TypeError
     ELSE [bullScore |-> bullScore, bearScore |-> bearScore,
           confluences |-> confluences, orderBlocks |-> orderBlocks,
           fvgs |-> fvgs, structure |-> structure, signal |-> signal,
           entryPrice |-> plan.entryPrice, slPrice |-> plan.slPrice,
           tpPrice |-> plan.tpPrice, rrRatio |-> plan.rrRatio,
           pnlEstimate |-> plan.pnlEstimate]

\* Faulty variant of the base variant: the block tests do not look at the
\* type of the block.
analyzePriceDataBaseAnyBlock(cs, cfg) ==
  LET orderBlocks == detectOrderBlocks(cs)
      fvgs == detectFVGs(cs)
      highPivots == findPivots(cs, cfg.swingLength, "high")
      lowPivots == findPivots(cs, cfg.swingLength, "low")
      structure == detectStructure(highPivots, lowPivots)
      lastCandle == lastCandleOf(cs)
      inBullOB == \E k \in 1..Len(orderBlocks) :
                    /\ Val(lastCandle).low <= orderBlocks[k].top
                    /\ Val(lastCandle).close >= orderBlocks[k].bottom
      inBearOB == \E k \in 1..Len(orderBlocks) :
                    /\ Val(lastCandle).high >= orderBlocks[k].bottom
                    /\ Val(lastCandle).close <= orderBlocks[k].top
      inBullFVG == someBullZone(fvgs, lastCandle)
      inBearFVG == someBearZone(fvgs, lastCandle)
      bullBOS == \E k \in 1..Len(structure) : structure[k].direction = "bullish"
      bearBOS == \E k \in 1..Len(structure) : structure[k].direction = "bearish"
      bullScore == (IF inBullOB THEN 1 ELSE 0) + (IF inBullFVG THEN 1 ELSE 0)
                   + (IF bullBOS THEN 1 ELSE 0)
      bearScore == (IF inBearOB THEN 1 ELSE 0) + (IF inBearFVG THEN 1 ELSE 0)
                   + (IF bearBOS THEN 1 ELSE 0)
      signal == decideSignal(bullScore, bearScore, cfg.minConfluence)
  IN [bullScore |-> bullScore, bearScore |-> bearScore,
      orderBlocks |-> orderBlocks, fvgs |-> fvgs, structure |-> structure,
      signal |-> signal]

\* The base variant: the same detectors, three factors, no trade plan.
analyzePriceDataBase(cs, cfg) ==
  LET orderBlocks == detectOrderBlocks(cs)
      fvgs == detectFVGs(cs)
      highPivots == findPivots(cs, cfg.swingLength, "high")
      lowPivots == findPivots(cs, cfg.swingLength, "low")
      structure == detectStructure(highPivots, lowPivots)
      lastCandle == lastCandleOf(cs)
      inBullOB == someBullZone(orderBlocks, lastCandle)
      inBearOB == someBearZone(orderBlocks, lastCandle)
      inBullFVG == someBullZone(fvgs, lastCandle)
      inBearFVG == someBearZone(fvgs, lastCandle)
      bullBOS == \E k \in 1..Len(structure) : structure[k].direction = "bullish"
      bearBOS == \E k \in 1..Len(structure) : structure[k].direction = "bearish"
      bullScore == (IF inBullOB THEN 1 ELSE 0) + (IF inBullFVG THEN 1 ELSE 0)
                   + (IF bullBOS THEN 1 ELSE 0)
      bearScore == (IF inBearOB THEN 1 ELSE 0) + (IF inBearFVG THEN 1 ELSE 0)
                   + (IF bearBOS THEN 1 ELSE 0)
      signal == decideSignal(bullScore, bearScore, cfg.minConfluence)
  IN [bullScore |-> bullScore, bearScore |-> bearScore,
      orderBlocks |-> orderBlocks, fvgs |-> fvgs, structure |-> structure,
      signal |-> signal]

---------------------------------------------------------------------------
(* The engine under its caller: the caller holds a bar sequence and a      *)
(* config and calls both variants on them; each new bar makes the sequence *)
(* one longer and the engine is run again on the whole sequence.           *)

VARIABLES candles, config, analysis, baseAnalysis
\* The host and the exchange it is connected to (used by the host runs only):
\* clock is the time of the bar the exchange is forming, socket the live
\* messages sent and not yet delivered, in the order sent, responses the
\* answers to historical fetches not yet delivered, loading whether the fetch
\* of the initial load is still unanswered.
VARIABLES clock, socket, responses, loading
\* currentSymbol is the pair on display.  origins records, bar by bar, the
\* pair each bar of candles came from (the bars do not carry it).
VARIABLES currentSymbol, origins
\* The assistant panel: isLoadingAi, activeAiMode and aiResult as in App, and
\* call, the model call runAiAnalysis is waiting for.
VARIABLES isLoadingAi, activeAiMode, aiResult, call

aiVars == <<isLoadingAi, activeAiMode, aiResult, call>>

hostVars ==
  <<clock, socket, responses, loading, currentSymbol, origins,
    isLoadingAi, activeAiMode, aiResult, call>>

vars ==
  <<candles, config, analysis, baseAnalysis, clock, socket, responses, loading,
    currentSymbol, origins, isLoadingAi, activeAiMode, aiResult, call>>

\* aiResult before the first answer and after a reset (null).
NoAiResult == [none |-> TRUE]

\* No model call is awaited.
NoCall == [none |-> TRUE]

\* The assistant panel as App constructs it.
AiIdle ==
  /\ isLoadingAi = FALSE
  /\ activeAiMode = "none"
  /\ aiResult = NoAiResult
  /\ call = NoCall

\* No host: nothing is connected.
HostIdle ==
  /\ clock = 0
  /\ socket = <<>>
  /\ responses = {}
  /\ loading = FALSE
  /\ currentSymbol = DefaultSymbol
  /\ origins = <<>>
  /\ AiIdle

\* No call has returned yet.
NoResult == [none |-> TRUE]

Init ==
  /\ candles = <<>>
  /\ config \in Config
  /\ analysis = NoResult
  /\ baseAnalysis = NoResult
  /\ HostIdle

\* Faulty variant: the call consumes the first bar of the caller's sequence (a
\* shift() on the argument).
AnalyzeShifting ==
  /\ analysis' = analyzePriceData(candles, config)
  /\ baseAnalysis' = analyzePriceDataBase(candles, config)
  /\ candles' = IF candles = <<>> THEN candles ELSE Tail(candles)
  /\ UNCHANGED config
  /\ UNCHANGED hostVars

\* A call on the sequence as it stands.
Analyze ==
  /\ analysis' = analyzePriceData(candles, config)
  /\ baseAnalysis' = analyzePriceDataBase(candles, config)
  /\ UNCHANGED <<candles, config>>
  /\ UNCHANGED hostVars

\* A new bar (its time one step after the last bar's) and a call on the
\* longer sequence.
Feed(s) ==
  /\ Len(candles) < MaxBars
  /\ candles' = Append(candles, Candle(Len(candles) + 1, s[1], s[2], s[3], s[4]))
  /\ analysis' = analyzePriceData(candles', config)
  /\ baseAnalysis' = analyzePriceDataBase(candles', config)
  /\ UNCHANGED config
  /\ UNCHANGED hostVars

Next == Analyze \/ \E s \in Shapes : Feed(s)

Spec == Init /\ [][Next]_vars

\* The structure runs: longer sequences of the three structure shapes, where
\* several pivots of each kind occur.
InitStructure ==
  /\ candles = <<>>
  /\ config \in StructureConfig
  /\ analysis = NoResult
  /\ baseAnalysis = NoResult
  /\ HostIdle

FeedStructure(s) ==
  /\ Len(candles) < MaxStructureBars
  /\ candles' = Append(candles, Candle(Len(candles) + 1, s[1], s[2], s[3], s[4]))
  /\ analysis' = analyzePriceData(candles', config)
  /\ baseAnalysis' = analyzePriceDataBase(candles', config)
  /\ UNCHANGED config
  /\ UNCHANGED hostVars

NextStructure == Analyze \/ \E s \in StructureShapes : FeedStructure(s)

SpecStructure == InitStructure /\ [][NextStructure]_vars

\* The stepped runs: each new bar is one of the step shapes, placed a step
\* above or below the low of the bar before it (the first bar above 0), with
\* every price positive.  Rising sequences, and blocks at different levels
\* that the last bar occupies together, occur here.
InitSteps ==
  /\ candles = <<>>
  /\ config \in StepConfig
  /\ analysis = NoResult
  /\ baseAnalysis = NoResult
  /\ HostIdle

FeedStep(s, d) ==
  LET low == (IF candles = <<>> THEN 0 ELSE candles[Len(candles)].low) + d
  IN /\ Len(candles) < MaxStepBars
     /\ low >= 1
     /\ candles' = Append(candles, Candle(Len(candles) + 1, low + s[1], low + s[2],
                                          low + s[3], low + s[4]))
     /\ analysis' = analyzePriceData(candles', config)
     /\ baseAnalysis' = analyzePriceDataBase(candles', config)
     /\ UNCHANGED config
     /\ UNCHANGED hostVars

NextSteps == Analyze \/ \E s \in StepShapes, d \in Steps : FeedStep(s, d)

SpecSteps == InitSteps /\ [][NextSteps]_vars

\* The detector runs: short sequences of the detector shapes, where the size
\* test of the gap detector passes on some bars and fails on others.
InitDetectors ==
  /\ candles = <<>>
  /\ config \in DetectorConfig
  /\ analysis = NoResult
  /\ baseAnalysis = NoResult
  /\ HostIdle

FeedDetector(s) ==
  /\ Len(candles) < MaxDetectorBars
  /\ candles' = Append(candles, Candle(Len(candles) + 1, s[1], s[2], s[3], s[4]))
  /\ analysis' = analyzePriceData(candles', config)
  /\ baseAnalysis' = analyzePriceDataBase(candles', config)
  /\ UNCHANGED config
  /\ UNCHANGED hostVars

NextDetectors == Analyze \/ \E s \in DetectorShapes : FeedDetector(s)

SpecDetectors == InitDetectors /\ [][NextDetectors]_vars

---------------------------------------------------------------------------
(* The host (App).  candles is dataRef.current, analysis the result it     *)
(* shows.  The exchange forms one bar after the other; a historical fetch   *)
(* is answered with the bars up to the one being formed, and the live       *)
(* stream sends the bar being formed, any number of times.  The answers and *)
(* the live messages travel on connections of their own: the live messages  *)
(* arrive in the order sent, an answer arrives at any time after it was     *)
(* given.                                                                   *)

\* What fetchBinanceKlines resolves to when the exchange answered at bar time
\* last: the last HistoryLimit bars up to it, oldest first; [] on an error
\* (last = 0).
History(last) ==
  LET first == IF last > HistoryLimit THEN last - HistoryLimit + 1 ELSE 1
  IN [k \in 1..(IF last = 0 THEN 0 ELSE last - first + 1) |->
        Candle(first + k - 1, HistoryShape[1], HistoryShape[2], HistoryShape[3],
               HistoryShape[4])]

InitHost ==
  /\ candles = <<>>
  /\ config = HostConfig
  /\ analysis = NoResult
  /\ baseAnalysis = NoResult
  /\ clock = 1
  /\ socket = <<>>
  /\ responses = {}
  /\ loading = TRUE
  /\ currentSymbol = DefaultSymbol
  /\ origins = <<>>
  /\ AiIdle

\* The bar time at which a host that loaded HistoryLimit bars and then
\* followed the stream first holds MaxCandles bars.
WindowClock == MaxCandles

\* The host at that time: dataRef.current holds the HistoryLimit bars it
\* loaded and one live bar per bar time since, and nothing is on its way.
InitWindow ==
  /\ candles = [k \in 1..WindowClock |->
                  Candle(k, HistoryShape[1], HistoryShape[2], HistoryShape[3],
                         HistoryShape[4])]
  /\ config = HostConfig
  /\ analysis = analyzePriceData(candles, config)
  /\ baseAnalysis = NoResult
  /\ clock = WindowClock
  /\ socket = <<>>
  /\ responses = {}
  /\ loading = FALSE
  /\ currentSymbol = DefaultSymbol
  /\ origins = [k \in 1..WindowClock |-> DefaultSymbol]
  /\ AiIdle

\* The exchange closes the bar it is forming and opens the next.
Tick ==
  /\ clock # MaxClock
  /\ clock # WindowClock + MaxClock - 1
  /\ clock' = clock + 1
  /\ UNCHANGED <<candles, config, analysis, baseAnalysis, socket, responses,
                 loading, currentSymbol, origins>>
  /\ UNCHANGED aiVars

\* The exchange sends the bar it is forming down the live stream of the pair
\* on display.
StreamSend(s) ==
  /\ Len(socket) < MaxInFlight
  /\ socket' = Append(socket, Candle(clock, s[1], s[2], s[3], s[4]))
  /\ UNCHANGED <<candles, config, analysis, baseAnalysis, clock, responses,
                 loading, currentSymbol, origins>>
  /\ UNCHANGED aiVars

\* The exchange answers the fetch of loadData (ok), or the fetch fails.  The
\* answer carries the pair and the config of the effect that asked.
ServeLoad(ok) ==
  /\ loading
  /\ loading' = FALSE
  /\ responses' = responses \cup
       {[kind |-> "load", last |-> IF ok THEN clock ELSE 0,
         symbol |-> currentSymbol, config |-> config]}
  /\ UNCHANGED <<candles, config, analysis, baseAnalysis, clock, socket,
                 currentSymbol, origins>>
  /\ UNCHANGED aiVars

\* handleRefresh up to its await: the fetch is sent for the pair on display
\* and answered (ok) or fails.  The callback keeps the pair and the config it
\* was made with.
Refresh(ok) ==
  /\ Cardinality({r \in responses : r.kind = "refresh"}) < MaxRefreshes
  /\ responses' = responses \cup
       {[kind |-> "refresh", last |-> IF ok THEN clock ELSE 0,
         symbol |-> currentSymbol, config |-> config]}
  /\ UNCHANGED <<candles, config, analysis, baseAnalysis, clock, socket,
                 loading, currentSymbol, origins>>
  /\ UNCHANGED aiVars

\* loadData, or handleRefresh, after its await: a non-empty answer replaces the
\* bars and is analysed; handleRefresh then clears the assistant panel.
Complete(r) ==
  /\ r \in responses
  /\ responses' = responses \ {r}
  /\ LET historical == History(r.last)
     IN IF Len(historical) > 0
        THEN /\ candles' = historical
             /\ origins' = [k \in 1..Len(historical) |-> r.symbol]
             /\ analysis' = analyzePriceData(historical, r.config)
        ELSE UNCHANGED <<candles, origins, analysis>>
  /\ IF r.kind = "refresh"
     THEN aiResult' = NoAiResult /\ activeAiMode' = "none"
     ELSE UNCHANGED <<aiResult, activeAiMode>>
  /\ UNCHANGED <<config, baseAnalysis, clock, socket, loading, currentSymbol,
                 isLoadingAi, call>>

\* Faulty variant: every live candle is pushed, none replaces the last bar.
LiveMessageAppendOnly ==
  /\ socket # <<>>
  /\ LET newCandle == Head(socket)
         pushed == Append(candles, newCandle)
         updatedData == IF Len(pushed) > MaxCandles THEN Tail(pushed) ELSE pushed
         updatedOrigins == IF Len(pushed) > MaxCandles
                           THEN Tail(Append(origins, currentSymbol))
                           ELSE Append(origins, currentSymbol)
     IN /\ candles' = updatedData
        /\ origins' = updatedOrigins
        /\ analysis' = analyzePriceData(updatedData, config)
  /\ socket' = Tail(socket)
  /\ UNCHANGED <<config, baseAnalysis, clock, responses, loading, currentSymbol>>
  /\ UNCHANGED aiVars

\* Faulty variant: the oldest bar is never dropped.
LiveMessageUncapped ==
  /\ socket # <<>>
  /\ LET newCandle == Head(socket)
         lastIdx == Len(candles) - 1
         replaces == lastIdx >= 0 /\ At(candles, lastIdx).time = newCandle.time
         updatedData == IF replaces
                        THEN [candles EXCEPT ![lastIdx + 1] = newCandle]
                        ELSE Append(candles, newCandle)
         updatedOrigins == IF replaces
                           THEN [origins EXCEPT ![lastIdx + 1] = currentSymbol]
                           ELSE Append(origins, currentSymbol)
     IN /\ candles' = updatedData
        /\ origins' = updatedOrigins
        /\ analysis' = analyzePriceData(updatedData, config)
  /\ socket' = Tail(socket)
  /\ UNCHANGED <<config, baseAnalysis, clock, responses, loading, currentSymbol>>
  /\ UNCHANGED aiVars

\* The callback of subscribeToBinanceKlines on the message that arrives next.
LiveMessage ==
  /\ socket # <<>>
  /\ LET newCandle == Head(socket)
         lastIdx == Len(candles) - 1
         replaces == lastIdx >= 0 /\ At(candles, lastIdx).time = newCandle.time
         pushed == Append(candles, newCandle)
         updatedData ==
           IF replaces
           THEN [candles EXCEPT ![lastIdx + 1] = newCandle]
           ELSE IF Len(pushed) > MaxCandles THEN Tail(pushed) ELSE pushed
         updatedOrigins ==
           IF replaces
           THEN [origins EXCEPT ![lastIdx + 1] = currentSymbol]
           ELSE IF Len(pushed) > MaxCandles
                THEN Tail(Append(origins, currentSymbol))
                ELSE Append(origins, currentSymbol)
     IN /\ candles' = updatedData
        /\ origins' = updatedOrigins
        /\ analysis' = analyzePriceData(updatedData, config)
  /\ socket' = Tail(socket)
  /\ UNCHANGED <<config, baseAnalysis, clock, responses, loading, currentSymbol>>
  /\ UNCHANGED aiVars

NextHost ==
  \/ Tick
  \/ \E s \in HostShapes : StreamSend(s)
  \/ \E ok \in BOOLEAN : ServeLoad(ok)
  \/ \E ok \in BOOLEAN : Refresh(ok)
  \/ \E r \in responses : Complete(r)
  \/ LiveMessage

\* The host with one pair and one config, mounted once.
SpecHost == InitHost /\ [][NextHost]_vars

\* The effect of App runs again (currentSymbol or config changed): its cleanup
\* sets isMounted of the old run to false and closes the old stream, so the
\* live messages of the old stream and the answer to the old loadData are
\* ignored when they arrive; the new run calls loadData and subscribes.
\* dataRef.current stays as it is.
RunEffectAgain ==
  /\ socket' = <<>>
  /\ responses' = {r \in responses : r.kind = "refresh"}
  /\ loading' = TRUE
  /\ UNCHANGED <<candles, origins, analysis, baseAnalysis, clock>>
  /\ UNCHANGED aiVars

\* The user chooses another pair.
SetCurrentSymbol(symbol) ==
  /\ symbol # currentSymbol
  /\ currentSymbol' = symbol
  /\ UNCHANGED config
  /\ RunEffectAgain

\* The user moves a slider of the config.
UpdateConfig(key, val) ==
  /\ config[key] # val
  /\ config' = [config EXCEPT ![key] = val]
  /\ UNCHANGED currentSymbol
  /\ RunEffectAgain

\* The loaded host on a stream of falling bars.
NextWindow ==
  \/ Tick
  \/ StreamSend(SessionShape)
  \/ \E ok \in BOOLEAN : Refresh(ok)
  \/ \E r \in responses : Complete(r)
  \/ LiveMessage

\* The host from the time its window is full.
SpecWindow == InitWindow /\ [][NextWindow]_vars

NextSwitch ==
  \/ NextWindow
  \/ \E ok \in BOOLEAN : ServeLoad(ok)
  \/ \E symbol \in Symbols : SetCurrentSymbol(symbol)
  \/ \E e \in ConfigEdits : UpdateConfig(e[1], e[2])

\* The host, from its construction, whose user changes the pair and the
\* config.
SpecSwitch == InitHost /\ [][NextSwitch]_vars

---------------------------------------------------------------------------
(* The assistant panel of the host. *)

\* String.prototype.includes on character sequences.
includes(s, sub) ==
  \E i \in 1..(Len(s) - Len(sub) + 1) : SubSeq(s, i, i + Len(sub) - 1) = sub

QuotaText ==
  "Daily search grounding quota exceeded for this API Key. Please try 'Deep Thinking' or 'Fast Scan' modes instead, which utilize different resource pools."

GenericText ==
  "An unexpected error occurred while communicating with Gemini. Please verify your connection or try again later."

\* Faulty variant: the three words are looked for at the start of the message.
handleApiErrorStartsWith(error) ==
  LET errorMessage == IF IsSet(error) /\ Val(error).message # <<>>
                      THEN Val(error).message ELSE <<>>
      startsWith(sub) == Len(sub) <= Len(errorMessage)
                         /\ SubSeq(errorMessage, 1, Len(sub)) = sub
  IN IF \/ startsWith(<<"4", "2", "9">>)
        \/ startsWith(<<"q", "u", "o", "t", "a">>)
        \/ startsWith(<<"R", "E", "S", "O", "U", "R", "C", "E", "_",
                        "E", "X", "H", "A", "U", "S", "T", "E", "D">>)
     THEN [text |-> QuotaText, isError |-> TRUE]
     ELSE [text |-> GenericText, isError |-> TRUE]

handleApiError(error) ==
  LET errorMessage == IF IsSet(error) /\ Val(error).message # <<>>
                      THEN Val(error).message ELSE <<>>
  IN IF \/ includes(errorMessage, <<"4", "2", "9">>)
        \/ includes(errorMessage, <<"q", "u", "o", "t", "a">>)
        \/ includes(errorMessage, <<"R", "E", "S", "O", "U", "R", "C", "E", "_",
                                    "E", "X", "H", "A", "U", "S", "T", "E", "D">>)
     THEN [text |-> QuotaText, isError |-> TRUE]
     ELSE [text |-> GenericText, isError |-> TRUE]

\* response.text || fallback
textOr(text, fallback) == IF text # "" THEN text ELSE fallback

\* groundingChunks?.map(chunk => chunk.web).filter(web => web?.uri &&
\* web?.title).map(web => ({ title, uri })) || []
sourcesOf(groundingChunks) ==
  IF ~IsSet(groundingChunks) THEN <<>>
  ELSE LET kept == SelectSeq(Val(groundingChunks),
                             LAMBDA web : /\ IsSet(web)
                                          /\ Val(web).uri # ""
                                          /\ Val(web).title # "")
       IN [k \in 1..Len(kept) |->
             [title |-> Val(kept[k]).title, uri |-> Val(kept[k]).uri]]

getFastAnalysis(outcome) ==
  IF outcome.kind = "response"
  THEN [text |-> textOr(outcome.text, "No response generated.")]
  ELSE handleApiError(outcome.error)

getSearchAnalysis(outcome) ==
  IF outcome.kind = "response"
  THEN [text |-> textOr(outcome.text, "No insights found."),
        sources |-> sourcesOf(outcome.groundingChunks)]
  ELSE handleApiError(outcome.error)

getDeepThinkingAnalysis(outcome) ==
  IF outcome.kind = "response"
  THEN [text |-> textOr(outcome.text, "Deep thinking failed to produce a result.")]
  ELSE handleApiError(outcome.error)

\* runAiAnalysis up to its await: the panel shows the spinner and the model
\* call of the mode is made.
RunAiAnalysis(mode) ==
  /\ ~isLoadingAi
  /\ analysis # NoResult
  /\ Len(candles) # 0
  /\ isLoadingAi' = TRUE
  /\ activeAiMode' = mode
  /\ aiResult' = NoAiResult
  /\ call' = [mode |-> mode, settled |-> <<>>]
  /\ UNCHANGED <<candles, config, analysis, baseAnalysis, clock, socket,
                 responses, loading, currentSymbol, origins>>

\* The model call settles, with a response or with an error.
ModelSettles(outcome) ==
  /\ call # NoCall
  /\ call.settled = <<>>
  /\ call' = [call EXCEPT !.settled = <<outcome>>]
  /\ UNCHANGED <<candles, config, analysis, baseAnalysis, clock, socket,
                 responses, loading, currentSymbol, origins>>
  /\ UNCHANGED <<isLoadingAi, activeAiMode, aiResult>>

\* runAiAnalysis after its await: the function of the mode resolves and its
\* result is stored.
ResumeAiAnalysis ==
  /\ call # NoCall
  /\ call.settled # <<>>
  /\ LET outcome == call.settled[1]
         result == IF call.mode = "fast" THEN getFastAnalysis(outcome)
                   ELSE IF call.mode = "search" THEN getSearchAnalysis(outcome)
                   ELSE getDeepThinkingAnalysis(outcome)
     IN aiResult' = result
  /\ isLoadingAi' = FALSE
  /\ call' = NoCall
  /\ UNCHANGED <<candles, config, analysis, baseAnalysis, clock, socket,
                 responses, loading, currentSymbol, origins>>
  /\ UNCHANGED activeAiMode

\* The user closes the result.
DismissAiResult ==
  /\ aiResult # NoAiResult
  /\ aiResult' = NoAiResult
  /\ activeAiMode' = "none"
  /\ UNCHANGED <<candles, config, analysis, baseAnalysis, clock, socket,
                 responses, loading, currentSymbol, origins>>
  /\ UNCHANGED <<isLoadingAi, call>>

NextAi ==
  \/ \E ok \in BOOLEAN : ServeLoad(ok)
  \/ \E ok \in BOOLEAN : Refresh(ok)
  \/ \E r \in responses : Complete(r)
  \/ \E mode \in Modes : RunAiAnalysis(mode)
  \/ \E outcome \in Outcomes : ModelSettles(outcome)
  \/ ResumeAiAnalysis
  \/ DismissAiResult

\* The host and its assistant panel while the exchange stays on one bar.  A
\* model call that was made settles, and the function waiting for it is
\* resumed.
SpecAi ==
  /\ InitHost
  /\ [][NextAi]_vars
  /\ WF_vars(\E outcome \in Outcomes : ModelSettles(outcome))
  /\ WF_vars(ResumeAiAnalysis)

---------------------------------------------------------------------------
(* Properties *)

\* A call has returned a result (it did not throw).
Returned == analysis # NoResult /\ analysis # TypeError

\* Every bar has high >= low.
HighAboveLow ==
  \A k \in 1..Len(candles) : candles[k].high >= candles[k].low

\* Every bar is well formed and its prices are positive.
PositiveWellFormed ==
  \A k \in 1..Len(candles) :
    /\ candles[k].low > 0
    /\ candles[k].low <= candles[k].open /\ candles[k].low <= candles[k].close
    /\ candles[k].open <= candles[k].high /\ candles[k].close <= candles[k].high

\* A config the data model allows.
ConfigAllowed ==
  config.rrRatio > 0 /\ config.slBuffer >= 0 /\ config.minConfluence \in 1..4

\* The fraction <<numerator, denominator>> is above zero.
PositiveFraction(q) == (q[1] > 0 /\ q[2] > 0) \/ (q[1] < 0 /\ q[2] < 0)

SignalRule(r) ==
  /\ (r.signal = "BUY") <=> (r.bullScore >= config.minConfluence)
  /\ (r.signal = "SELL") <=> (r.bullScore < config.minConfluence
                              /\ r.bearScore >= config.minConfluence)
  /\ (r.signal = "NEUTRAL") <=> (r.bullScore < config.minConfluence
                                 /\ r.bearScore < config.minConfluence)

\* C1: the signal is BUY exactly when bullScore >= config.minConfluence, SELL
\* exactly when bullScore is below it and bearScore >= config.minConfluence,
\* and NEUTRAL otherwise, in both variants; so BUY wins when both scores
\* reach the minimum, also when bearScore is the larger.
C1_SignalDecision ==
  Returned => SignalRule(analysis) /\ SignalRule(baseAnalysis)

\* Both scores reach the minimum, bearScore is larger, and the signal is BUY.
C1_Witness ==
  /\ Returned
  /\ analysis.bullScore >= config.minConfluence
  /\ analysis.bearScore > analysis.bullScore
  /\ analysis.signal = "BUY"

\* C2: for well-formed bars with positive prices and an allowed config, BUY
\* has tpPrice > entryPrice > slPrice, SELL has tpPrice < entryPrice <
\* slPrice, and pnlEstimate > 0 whenever a signal fires.
C2_TradePlanSigns ==
  (Returned /\ PositiveWellFormed /\ ConfigAllowed) =>
    /\ analysis.signal = "BUY" =>
         /\ Val(analysis.tpPrice) > Val(analysis.entryPrice)
         /\ Val(analysis.entryPrice) > Val(analysis.slPrice)
    /\ analysis.signal = "SELL" =>
         /\ Val(analysis.tpPrice) < Val(analysis.entryPrice)
         /\ Val(analysis.entryPrice) < Val(analysis.slPrice)
    /\ analysis.signal # "NEUTRAL" =>
         PositiveFraction(Val(analysis.pnlEstimate))

NoConfluence == [ob |-> FALSE, fvg |-> FALSE, bos |-> FALSE, sweep |-> FALSE]

NeutralEmpty ==
  [bullScore |-> 0, bearScore |-> 0,
   confluences |-> [bullish |-> NoConfluence, bearish |-> NoConfluence],
   orderBlocks |-> <<>>, fvgs |-> <<>>, structure |-> <<>>,
   signal |-> "NEUTRAL", entryPrice |-> Undefined, slPrice |-> Undefined,
   tpPrice |-> Undefined, rrRatio |-> Undefined, pnlEstimate |-> Undefined]

\* C3: on an empty sequence or a single bar, with minConfluence in 1..4, the
\* call does not fail and returns NEUTRAL, scores 0 and 0, empty fvgs,
\* orderBlocks and structure, eight false confluence flags and no trade plan.
C3_ShortInputNeutral ==
  (analysis # NoResult /\ Len(candles) <= 1 /\ config.minConfluence \in 1..4) =>
    analysis = NeutralEmpty

\* The call on the empty sequence has returned.
C3_Witness == Len(candles) = 0 /\ analysis = NeutralEmpty

ZonesOrdered(zones) == \A k \in 1..Len(zones) : zones[k].top >= zones[k].bottom

\* C4: when every bar has high >= low, every zone of fvgs and of orderBlocks
\* has top >= bottom.
C4_ZoneTopAboveBottom ==
  (Returned /\ HighAboveLow) =>
    /\ ZonesOrdered(analysis.fvgs) /\ ZonesOrdered(analysis.orderBlocks)
    /\ ZonesOrdered(baseAnalysis.fvgs) /\ ZonesOrdered(baseAnalysis.orderBlocks)

\* A result with zones of both kinds.
C4_Witness ==
  Returned /\ analysis.fvgs # <<>> /\ analysis.orderBlocks # <<>>

TrueCount(details) ==
  Cardinality({f \in {"ob", "fvg", "bos", "sweep"} : details[f]})

\* C6: bullScore is the number of true flags among confluences.bullish.{ob,
\* fvg, bos, sweep} and bearScore the number among confluences.bearish; both
\* lie in 0..4.
C6_ScoreCountsFlags ==
  Returned =>
    /\ analysis.bullScore = TrueCount(analysis.confluences.bullish)
    /\ analysis.bearScore = TrueCount(analysis.confluences.bearish)
    /\ analysis.bullScore \in 0..4 /\ analysis.bearScore \in 0..4

\* A score of two that counts a sweep.
C6_Witness ==
  /\ Returned
  /\ \/ analysis.confluences.bullish.sweep /\ analysis.bullScore = 2
     \/ analysis.confluences.bearish.sweep /\ analysis.bearScore = 2

\* C7: fewer than 3 bars give no fvgs, fewer than 2 no orderBlocks, and fewer
\* than 2 * swingLength + 1 (swingLength >= 1) no pivot of either kind, hence
\* no structure event and no sweep.
C7_ShortSequencesDetectNothing ==
  Returned =>
    /\ Len(candles) < 3 => analysis.fvgs = <<>>
    /\ Len(candles) < 2 => analysis.orderBlocks = <<>>
    /\ (config.swingLength >= 1 /\ Len(candles) < 2 * config.swingLength + 1) =>
         /\ findPivots(candles, config.swingLength, "high") = <<>>
         /\ findPivots(candles, config.swingLength, "low") = <<>>
         /\ analysis.structure = <<>>
         /\ ~analysis.confluences.bullish.sweep
         /\ ~analysis.confluences.bearish.sweep

\* One bar short of the first pivot, with enough bars for a zone.
C7_Witness ==
  /\ Returned
  /\ Len(candles) = 2 * config.swingLength
  /\ analysis.fvgs # <<>>

MaxHigh == CHOOSE m \in {candles[k].high : k \in 1..Len(candles)} :
             \A k \in 1..Len(candles) : candles[k].high <= m

MinLow == CHOOSE m \in {candles[k].low : k \in 1..Len(candles)} :
            \A k \in 1..Len(candles) : candles[k].low >= m

PivotIndices(type) ==
  LET p == findPivots(candles, config.swingLength, type)
  IN {p[k].idx : k \in 1..Len(p)}

\* The bars findPivots looks at: swingLength <= i <= length - swingLength - 1.
Candidate(i) ==
  config.swingLength <= i /\ i <= Len(candles) - config.swingLength - 1

\* C8: two or more adjacent bars at the maximum high are none of them a high
\* pivot, and adjacent bars at the minimum low none of them a low pivot.
C8_NoPivotOnPlateau ==
  LET highs == PivotIndices("high")
      lows == PivotIndices("low")
      top == MaxHigh
      floor == MinLow
  IN \A i \in 0..(Len(candles) - 2) :
       /\ (At(candles, i).high = top /\ At(candles, i + 1).high = top) =>
            (i \notin highs /\ i + 1 \notin highs)
       /\ (At(candles, i).low = floor /\ At(candles, i + 1).low = floor) =>
            (i \notin lows /\ i + 1 \notin lows)

\* A plateau at the maximum with a bar that findPivots looks at, and lower
\* bars on both sides of the plateau.
C8_Witness ==
  \E i \in 1..(Len(candles) - 3) :
    /\ At(candles, i).high = MaxHigh /\ At(candles, i + 1).high = MaxHigh
    /\ At(candles, i - 1).high < MaxHigh /\ At(candles, i + 2).high < MaxHigh
    /\ Candidate(i)

\* C9 as stated: two bars with the same high, the highest of the sequence,
\* are neither of them a high pivot, whatever the number of bars between.
C9_NoPivotOnDoubleTop ==
  LET highs == PivotIndices("high")
      top == MaxHigh
  IN \A a, b \in 0..(Len(candles) - 1) :
       (a < b /\ At(candles, a).high = top /\ At(candles, b).high = top) =>
         (a \notin highs /\ b \notin highs)

\* C9 as amended: two bars with the same high, the highest of the sequence,
\* and at most swingLength positions apart are neither of them a high pivot.
C9_NoPivotOnDoubleTopInWindow ==
  LET highs == PivotIndices("high")
      top == MaxHigh
  IN \A a, b \in 0..(Len(candles) - 1) :
       (a < b /\ b - a <= config.swingLength
        /\ At(candles, a).high = top /\ At(candles, b).high = top) =>
         (a \notin highs /\ b \notin highs)

\* A double top with a lower bar in between, both tops inside one window, one
\* of them a bar that findPivots looks at.
C9_Witness ==
  \E a, b \in 0..(Len(candles) - 1) :
    /\ a + 2 <= b /\ b - a <= config.swingLength
    /\ At(candles, a).high = MaxHigh /\ At(candles, b).high = MaxHigh
    /\ \A m \in (a + 1)..(b - 1) : At(candles, m).high < MaxHigh
    /\ (Candidate(a) \/ Candidate(b))

\* C10: structure holds at most one bullish and at most one bearish event,
\* every event has type BOS, and with both present the bullish one is first.
C10_StructureAtMostOnePerDirection ==
  Returned =>
    LET s == analysis.structure
    IN /\ Cardinality({k \in 1..Len(s) : s[k].direction = "bullish"}) <= 1
       /\ Cardinality({k \in 1..Len(s) : s[k].direction = "bearish"}) <= 1
       /\ Len(s) <= 2
       /\ \A k \in 1..Len(s) : s[k].type = "BOS"
       /\ Len(s) = 2 => (s[1].direction = "bullish" /\ s[2].direction = "bearish")

\* A result with a bullish and a bearish event.
C10_Witness == Returned /\ Len(analysis.structure) = 2

PlanFields == {"entryPrice", "slPrice", "tpPrice", "rrRatio", "pnlEstimate"}

\* C11: the five fields of the trade plan are all set when the signal is BUY
\* or SELL and all unset when it is NEUTRAL; when set, entryPrice is the close
\* of the last bar and rrRatio is config.rrRatio.
C11_PlanSetIffSignal ==
  Returned =>
    /\ analysis.signal \in {"BUY", "SELL"} =>
         /\ \A f \in PlanFields : IsSet(analysis[f])
         /\ Val(analysis.entryPrice) = candles[Len(candles)].close * PriceScale
         /\ Val(analysis.rrRatio) = config.rrRatio
    /\ analysis.signal = "NEUTRAL" =>
         \A f \in PlanFields : ~IsSet(analysis[f])

\* A SELL on a last bar whose close differs from its open.
C11_Witness ==
  /\ Returned
  /\ analysis.signal = "SELL"
  /\ IsSet(analysis.entryPrice)
  /\ candles[Len(candles)].close # candles[Len(candles)].open

\* The positions in orderBlocks of the blocks of the given type that the last
\* bar occupies.
Occupied(type) ==
  LET last == candles[Len(candles)]
      obs == analysis.orderBlocks
  IN {k \in 1..Len(obs) :
        /\ obs[k].type = type
        /\ IF type = "bullish"
           THEN last.low <= obs[k].top /\ last.close >= obs[k].bottom
           ELSE last.high >= obs[k].bottom /\ last.close <= obs[k].top}

First(S) == CHOOSE k \in S : \A m \in S : k <= m

\* The stop reference R of C12.
StopReference ==
  LET last == candles[Len(candles)]
  IN IF analysis.signal = "BUY"
     THEN IF analysis.confluences.bullish.ob
          THEN analysis.orderBlocks[First(Occupied("bullish"))].bottom
          ELSE last.low
     ELSE IF analysis.confluences.bearish.ob
          THEN analysis.orderBlocks[First(Occupied("bearish"))].top
          ELSE last.high

\* C12: on BUY slPrice = R * (1 - slBuffer/100), R the bottom of the earliest
\* detected occupied bullish order block if confluences.bullish.ob, else the
\* low of the last bar; on SELL slPrice = R * (1 + slBuffer/100), R the top of
\* the earliest occupied bearish order block if confluences.bearish.ob, else
\* the high of the last bar.  No imbalance zone enters R.
C12_StopReference ==
  Returned =>
    /\ analysis.signal = "BUY" =>
         Val(analysis.slPrice) = StopReference * (1000 - config.slBuffer) * 10
    /\ analysis.signal = "SELL" =>
         Val(analysis.slPrice) = StopReference * (1000 + config.slBuffer) * 10

\* A BUY where the last bar occupies two bullish order blocks with different
\* bottoms, the earlier of them with a bottom that is not the low of the last
\* bar either.
C12_Witness ==
  /\ Returned
  /\ analysis.signal = "BUY"
  /\ \E k, m \in Occupied("bullish") :
       /\ k < m
       /\ k = First(Occupied("bullish"))
       /\ analysis.orderBlocks[k].bottom # analysis.orderBlocks[m].bottom
       /\ analysis.orderBlocks[k].bottom # candles[Len(candles)].low

RECURSIVE Gcd(_, _)
Gcd(a, b) == IF b = 0 THEN a ELSE Gcd(b, a % b)

\* The fraction in lowest terms, with a positive denominator.
Reduced(q) ==
  LET g == Gcd(Abs(q[1]), Abs(q[2]))
      sign == IF q[2] < 0 THEN -1 ELSE 1
  IN <<sign * (q[1] \div g), sign * (q[2] \div g)>>

\* C13: with risk = |entryPrice - slPrice|, tpPrice = entryPrice + risk *
\* config.rrRatio on BUY and entryPrice - risk * config.rrRatio on SELL, so
\* |tpPrice - entryPrice| = config.rrRatio * |entryPrice - slPrice|; and
\* pnlEstimate = (tpPrice - entryPrice) / entryPrice * 100 on BUY, (entryPrice
\* - tpPrice) / entryPrice * 100 on SELL.  (rrRatio is in tenths, hence the
\* factor 10 on the other side.)
C13_TargetAndReturn ==
  (Returned /\ analysis.signal # "NEUTRAL") =>
    LET entry == Val(analysis.entryPrice)
        sl == Val(analysis.slPrice)
        tp == Val(analysis.tpPrice)
        risk == Abs(entry - sl)
    IN /\ analysis.signal = "BUY" =>
            /\ tp * 10 = entry * 10 + risk * config.rrRatio
            /\ Reduced(Val(analysis.pnlEstimate)) = Reduced(<<(tp - entry) * 100, entry>>)
       /\ analysis.signal = "SELL" =>
            /\ tp * 10 = entry * 10 - risk * config.rrRatio
            /\ Reduced(Val(analysis.pnlEstimate)) = Reduced(<<(entry - tp) * 100, entry>>)
       /\ Abs(tp - entry) * 10 = config.rrRatio * Abs(entry - sl)

\* A BUY with the stop away from the entry.
C13_Witness ==
  /\ Returned
  /\ analysis.signal = "BUY"
  /\ Val(analysis.slPrice) # Val(analysis.entryPrice)

C15_IndependentOfObLookback ==
  Returned =>
    \A n \in ObLookbacks :
      analyzePriceData(candles, [config EXCEPT !.obLookback = n]) = analysis

\* A result with an order block that lies further back than the shortest
\* lookback, under a config with another lookback.
C15_Witness ==
  /\ Returned
  /\ config.obLookback \notin ObLookbacks
  /\ \E k \in 1..Len(analysis.orderBlocks), n \in ObLookbacks :
       analysis.orderBlocks[k].index < Len(candles) - n

\* Each bar's high and low lie above those of the bar before it.
StrictlyRising ==
  \A k \in 2..Len(candles) :
    candles[k].high > candles[k - 1].high /\ candles[k].low > candles[k - 1].low

\* No bar's low lies above the high of the bar two positions earlier.
NoGap ==
  \A k \in 3..Len(candles) : ~(candles[k].low > candles[k - 2].high)

\* No bar with len bars on each side is strictly above all of them in its
\* high, or strictly below all of them in its low.
NoPivotAt(len) ==
  \A i \in len..(Len(candles) - len - 1) :
    /\ \E j \in 1..len : \/ At(candles, i).high <= At(candles, i - j).high
                         \/ At(candles, i).high <= At(candles, i + j).high
    /\ \E j \in 1..len : \/ At(candles, i).low >= At(candles, i - j).low
                         \/ At(candles, i).low >= At(candles, i + j).low

\* No bar closes below its open.
NoFallingBar ==
  \A k \in 1..Len(candles) : candles[k].close >= candles[k].open

NothingDetected ==
  /\ analysis.fvgs = <<>>
  /\ analysis.orderBlocks = <<>>
  /\ analysis.structure = <<>>
  /\ analysis.signal = "NEUTRAL"

\* C16 as stated: five strictly rising bars with no gap and no pivot at
\* swingLength 2, with minConfluence >= 1, give no fvgs, no orderBlocks, no
\* structure and NEUTRAL.
C16_RisingBarsDetectNothing ==
  (Returned /\ Len(candles) = 5 /\ StrictlyRising /\ NoGap /\ NoPivotAt(2)
   /\ config.minConfluence >= 1) =>
    NothingDetected

\* C16 as amended: the same for five strictly rising bars none of which closes
\* below its open.
C16_RisingBarsClosingUpDetectNothing ==
  (Returned /\ Len(candles) = 5 /\ StrictlyRising /\ NoGap /\ NoPivotAt(2)
   /\ NoFallingBar /\ config.minConfluence >= 1) =>
    NothingDetected

\* Five strictly rising bars without a gap, all closing up, at swingLength 2.
C16_Witness ==
  /\ Returned /\ Len(candles) = 5 /\ StrictlyRising /\ NoGap /\ NoPivotAt(2)
  /\ NoFallingBar /\ config.minConfluence >= 1
  /\ config.swingLength = 2

\* C17: every bar sequence the host hands to analyzePriceData (the one it
\* keeps in dataRef.current) has strictly increasing timestamps, under every
\* interleaving of the completion of the initial load, the completion of a
\* refresh and live messages.
C17_TimestampsStrictlyIncreasing ==
  \A k \in 2..Len(candles) : candles[k - 1].time < candles[k].time

\* bar[i] of the claims (0-based).
Bar(i) == At(candles, i)

\* The 3-bar rule of C18 at i, its two directions.
GapUp(i) ==
  /\ Bar(i - 2).high < Bar(i).low
  /\ Bar(i - 1).close > Bar(i - 1).open
  /\ (Bar(i).low - Bar(i - 2).high) * 10 > 3 * (Bar(i - 1).high - Bar(i - 1).low)

GapDown(i) ==
  /\ Bar(i - 2).low > Bar(i).high
  /\ Bar(i - 1).close < Bar(i - 1).open
  /\ (Bar(i - 2).low - Bar(i).high) * 10 > 3 * (Bar(i - 1).high - Bar(i - 1).low)

GapUpZone(i) ==
  [type |-> "bullish", top |-> Bar(i).low, bottom |-> Bar(i - 2).high,
   index |-> i - 1, startTime |-> Bar(i - 1).time, isValid |-> TRUE]

GapDownZone(i) ==
  [type |-> "bearish", top |-> Bar(i - 2).low, bottom |-> Bar(i).high,
   index |-> i - 1, startTime |-> Bar(i - 1).time, isValid |-> TRUE]

\* The list holds an element equal to z.
Holds(list, z) == \E k \in 1..Len(list) : list[k] = z

\* The list is in ascending order of i (index is i - 1).
AscendingIndex(list) ==
  \A k \in 1..(Len(list) - 1) : list[k].index <= list[k + 1].index

\* C18: fvgs is what the 3-bar rule gives, in ascending i: the bullish zone of
\* every i >= 2 where the rule holds upward, the bearish zone of every i >= 2
\* where it holds downward, and no other zone.
C18_FvgsByRule ==
  Returned =>
    LET up == {i \in 2..(Len(candles) - 1) : GapUp(i)}
        down == {i \in 2..(Len(candles) - 1) : GapDown(i)}
    IN /\ \A i \in up : Holds(analysis.fvgs, GapUpZone(i))
       /\ \A i \in down : Holds(analysis.fvgs, GapDownZone(i))
       /\ Len(analysis.fvgs) = Cardinality(up) + Cardinality(down)
       /\ AscendingIndex(analysis.fvgs)

\* A sequence with a bearish zone, and then a gap after a rising bar that is
\* too small for a zone.
C18_Witness ==
  /\ Returned
  /\ \E k \in 1..Len(analysis.fvgs) : analysis.fvgs[k].type = "bearish"
  /\ \E i \in 2..(Len(candles) - 1) :
       /\ Bar(i - 2).high < Bar(i).low
       /\ Bar(i - 1).close > Bar(i - 1).open
       /\ ~GapUp(i)

\* The 2-bar rule of C19 at i, its two directions.
ImpulseUp(i) ==
  /\ Bar(i).close > Bar(i).open
  /\ Bar(i - 1).close < Bar(i - 1).open
  /\ Abs(Bar(i).close - Bar(i).open) * 10 > 12 * (Bar(i - 1).high - Bar(i - 1).low)

ImpulseDown(i) ==
  /\ Bar(i).close < Bar(i).open
  /\ Bar(i - 1).close > Bar(i - 1).open
  /\ Abs(Bar(i).close - Bar(i).open) * 10 > 12 * (Bar(i - 1).high - Bar(i - 1).low)

Block(type, i) ==
  [type |-> type, top |-> Bar(i - 1).high, bottom |-> Bar(i - 1).low,
   index |-> i - 1, startTime |-> Bar(i - 1).time, isValid |-> TRUE]

\* Two zones share a price.
Overlap(a, b) == a.bottom <= b.top /\ b.bottom <= a.top

\* C19: orderBlocks is what the 2-bar rule gives, in ascending i: a bullish
\* block of bar i - 1 for every i >= 1 where the rule holds upward, a bearish
\* one where it holds downward, each with top and bottom the high and low of
\* bar i - 1, index i - 1, that bar's time and isValid true; blocks that
\* overlap are all kept.
C19_OrderBlocksByRule ==
  Returned =>
    LET up == {i \in 1..(Len(candles) - 1) : ImpulseUp(i)}
        down == {i \in 1..(Len(candles) - 1) : ImpulseDown(i)}
    IN /\ \A i \in up : Holds(analysis.orderBlocks, Block("bullish", i))
       /\ \A i \in down : Holds(analysis.orderBlocks, Block("bearish", i))
       /\ Len(analysis.orderBlocks) = Cardinality(up) + Cardinality(down)
       /\ AscendingIndex(analysis.orderBlocks)

\* Two blocks of opposite direction that overlap, and an impulse after a bar
\* of the other direction that is too small for a block.
C19_Witness ==
  /\ Returned
  /\ \E k, m \in 1..Len(analysis.orderBlocks) :
       /\ analysis.orderBlocks[k].type = "bullish"
       /\ analysis.orderBlocks[m].type = "bearish"
       /\ Overlap(analysis.orderBlocks[k], analysis.orderBlocks[m])
  /\ \E i \in 1..(Len(candles) - 1) :
       /\ Bar(i).close > Bar(i).open
       /\ Bar(i - 1).close < Bar(i - 1).open
       /\ ~ImpulseUp(i)

\* The rule of C20: i has swingLength bars on each side and is strictly above
\* all of them in its high (strictly below in its low).
SwingHigh(i) ==
  /\ config.swingLength <= i /\ i <= Len(candles) - config.swingLength - 1
  /\ \A j \in 1..config.swingLength :
       Bar(i).high > Bar(i - j).high /\ Bar(i).high > Bar(i + j).high

SwingLow(i) ==
  /\ config.swingLength <= i /\ i <= Len(candles) - config.swingLength - 1
  /\ \A j \in 1..config.swingLength :
       Bar(i).low < Bar(i - j).low /\ Bar(i).low < Bar(i + j).low

\* C20: for swingLength >= 1, i is reported as a high pivot iff swingLength <=
\* i <= length - swingLength - 1 and the high of bar i is strictly greater
\* than the highs of the swingLength bars on each side (low pivots: strictly
\* less, on lows); the pivots are in strictly ascending index and carry the
\* bar's high (or low), index and time.
C20_PivotsByRule ==
  config.swingLength >= 1 =>
    LET highs == findPivots(candles, config.swingLength, "high")
        lows == findPivots(candles, config.swingLength, "low")
    IN /\ \A i \in 0..(Len(candles) - 1) :
            /\ SwingHigh(i) <=> \E k \in 1..Len(highs) : highs[k].idx = i
            /\ SwingLow(i) <=> \E k \in 1..Len(lows) : lows[k].idx = i
       /\ \A k \in 1..(Len(highs) - 1) : highs[k].idx < highs[k + 1].idx
       /\ \A k \in 1..(Len(lows) - 1) : lows[k].idx < lows[k + 1].idx
       /\ \A k \in 1..Len(highs) :
            highs[k] = [val |-> Bar(highs[k].idx).high, idx |-> highs[k].idx,
                        time |-> Bar(highs[k].idx).time]
       /\ \A k \in 1..Len(lows) :
            lows[k] = [val |-> Bar(lows[k].idx).low, idx |-> lows[k].idx,
                       time |-> Bar(lows[k].idx).time]

\* Two high pivots and a low pivot, and a bar with swingLength bars on each
\* side that is no high pivot only because a bar in its window has the same
\* high.
C20_Witness ==
  /\ Len(findPivots(candles, config.swingLength, "high")) >= 2
  /\ Len(findPivots(candles, config.swingLength, "low")) >= 1
  /\ \E i \in config.swingLength..(Len(candles) - config.swingLength - 1) :
       /\ ~SwingHigh(i)
       /\ \A j \in 1..config.swingLength :
            Bar(i).high >= Bar(i - j).high /\ Bar(i).high >= Bar(i + j).high

\* The indices of the bars that are high (low) pivots by the rule of C20.
SwingHighs == {i \in 0..(Len(candles) - 1) : SwingHigh(i)}
SwingLows == {i \in 0..(Len(candles) - 1) : SwingLow(i)}

Latest(S) == CHOOSE k \in S : \A m \in S : m <= k

\* The structure events of the given direction in the result.
Events(direction) ==
  {k \in 1..Len(analysis.structure) : analysis.structure[k].direction = direction}

\* C21: a bullish event is in structure iff there are two high pivots or more
\* and the value of the last is strictly greater than that of the one before
\* it, and it carries the last high pivot's value, index and time; a bearish
\* event iff there are two low pivots or more and the value of the last is
\* strictly less than that of the one before it, carrying that pivot's value,
\* index and time.  Older pivots have no effect.
C21_StructureByLastTwoPivots ==
  Returned =>
    LET hi == SwingHighs
        lo == SwingLows
        up == /\ Cardinality(hi) >= 2
              /\ Bar(Latest(hi)).high > Bar(Latest(hi \ {Latest(hi)})).high
        down == /\ Cardinality(lo) >= 2
                /\ Bar(Latest(lo)).low < Bar(Latest(lo \ {Latest(lo)})).low
    IN /\ up <=> Events("bullish") # {}
       /\ down <=> Events("bearish") # {}
       /\ \A k \in Events("bullish") :
            analysis.structure[k] =
              [type |-> "BOS", direction |-> "bullish", price |-> Bar(Latest(hi)).high,
               index |-> Latest(hi), time |-> Bar(Latest(hi)).time]
       /\ \A k \in Events("bearish") :
            analysis.structure[k] =
              [type |-> "BOS", direction |-> "bearish", price |-> Bar(Latest(lo)).low,
               index |-> Latest(lo), time |-> Bar(Latest(lo)).time]

\* Three high pivots, the last above the one before it and not above the
\* first, with a bullish event in the result.
C21_Witness ==
  /\ Returned
  /\ Cardinality(SwingHighs) >= 3
  /\ Events("bullish") # {}
  /\ \E i \in SwingHighs : Bar(i).high >= Bar(Latest(SwingHighs)).high
                           /\ i # Latest(SwingHighs)

\* C22: confluences.bullish.sweep is true iff there is a low pivot and the
\* last bar's low is strictly below the value of the most recent one and its
\* close strictly above it; confluences.bearish.sweep iff there is a high
\* pivot and the last bar's high is strictly above the value of the most
\* recent one and its close strictly below it.  No other bar and no other
\* pivot enters.
C22_SweepByLastPivot ==
  Returned =>
    LET last == candles[Len(candles)]
    IN /\ analysis.confluences.bullish.sweep <=>
            /\ SwingLows # {}
            /\ last.low < Bar(Latest(SwingLows)).low
            /\ last.close > Bar(Latest(SwingLows)).low
       /\ analysis.confluences.bearish.sweep <=>
            /\ SwingHighs # {}
            /\ last.high > Bar(Latest(SwingHighs)).high
            /\ last.close < Bar(Latest(SwingHighs)).high

\* A bullish sweep of the later of two low pivots with different values.
C22_Witness ==
  /\ Returned
  /\ analysis.confluences.bullish.sweep
  /\ \E i \in SwingLows : Bar(i).low # Bar(Latest(SwingLows)).low

\* The positions in the list of the zones of the given direction that the last
\* bar is in, by the two tests of C23.
ZonesAtLastBar(list, direction) ==
  LET last == candles[Len(candles)]
  IN {k \in 1..Len(list) :
        /\ list[k].type = direction
        /\ IF direction = "bullish"
           THEN last.low <= list[k].top /\ last.close >= list[k].bottom
           ELSE last.high >= list[k].bottom /\ last.close <= list[k].top}

\* C23: confluences.bullish.ob is true iff some bullish order block z has
\* lastBar.low <= z.top and lastBar.close >= z.bottom, confluences.bearish.ob
\* iff some bearish order block z has lastBar.high >= z.bottom and
\* lastBar.close <= z.top; the fvg flags are the same tests on the imbalance
\* zones; the bos flags say whether structure holds an event of the direction.
C23_ConfluenceFlags ==
  Returned =>
    \A d \in {"bullish", "bearish"} :
      /\ analysis.confluences[d].ob <=> ZonesAtLastBar(analysis.orderBlocks, d) # {}
      /\ analysis.confluences[d].fvg <=> ZonesAtLastBar(analysis.fvgs, d) # {}
      /\ analysis.confluences[d].bos <=> Events(d) # {}

\* The last bar is in a bearish order block, and every bearish order block it
\* is in it only touches (its high on the bottom or its close on the top).
C23_Witness ==
  /\ Returned
  /\ analysis.confluences.bearish.ob
  /\ \A k \in ZonesAtLastBar(analysis.orderBlocks, "bearish") :
       \/ candles[Len(candles)].high = analysis.orderBlocks[k].bottom
       \/ candles[Len(candles)].close = analysis.orderBlocks[k].top

\* 1 for a true flag, 0 for a false one.
Point(flag) == IF flag THEN 1 ELSE 0

\* C24: on every non-empty input the base and the extended variant return
\* equal fvgs, orderBlocks and structure lists, the extended bullScore
\* (bearScore) is the base bullScore (bearScore) plus 1 if the bullish
\* (bearish) sweep flag is true and plus 0 otherwise, and whenever the base
\* variant returns BUY the extended variant returns BUY.
C24_VariantsAgree ==
  (Returned /\ baseAnalysis # NoResult /\ Len(candles) >= 1) =>
    /\ analysis.fvgs = baseAnalysis.fvgs
    /\ analysis.orderBlocks = baseAnalysis.orderBlocks
    /\ analysis.structure = baseAnalysis.structure
    /\ analysis.bullScore
         = baseAnalysis.bullScore + Point(analysis.confluences.bullish.sweep)
    /\ analysis.bearScore
         = baseAnalysis.bearScore + Point(analysis.confluences.bearish.sweep)
    /\ baseAnalysis.signal = "BUY" => analysis.signal = "BUY"

\* The variants disagree on the signal: the bullish sweep lifts the extended
\* score over the threshold while the base variant, with a bearish factor
\* only, returns SELL.
C24_Witness ==
  /\ Returned
  /\ baseAnalysis # NoResult
  /\ analysis.confluences.bullish.sweep
  /\ analysis.signal = "BUY"
  /\ baseAnalysis.signal = "SELL"

\* a is the beginning of b.
IsPrefix(a, b) == Len(a) <= Len(b) /\ SubSeq(b, 1, Len(a)) = a

\* The pivots of the given kind that the engine finds on the current bars.
Pivots(type) == findPivots(candles, config.swingLength, type)

\* C25: detections are stable under appending a bar: with the same config,
\* each high/low pivot found on s is found on s followed by b with the same
\* index and value, and the fvgs and orderBlocks lists computed on s are
\* prefixes of the lists computed on s followed by b.
C25_AppendStable ==
  [][(/\ Len(candles') = Len(candles) + 1
      /\ IsPrefix(candles, candles')
      /\ config' = config
      /\ Returned
      /\ Returned')
     => /\ \A type \in {"high", "low"} :
             \A k \in 1..Len(Pivots(type)) :
               \E m \in 1..Len(Pivots(type)') :
                 /\ Pivots(type)'[m].idx = Pivots(type)[k].idx
                 /\ Pivots(type)'[m].val = Pivots(type)[k].val
        /\ IsPrefix(analysis.fvgs, analysis'.fvgs)
        /\ IsPrefix(analysis.orderBlocks, analysis'.orderBlocks)]_vars

\* Bars whose last bar added a zone to a non-empty zone list, with a pivot
\* that was already found before that bar arrived.
C25_Witness ==
  /\ Returned
  /\ Len(analysis.fvgs) >= 2
  /\ analysis.fvgs[Len(analysis.fvgs)].index = Len(candles) - 2
  /\ \E type \in {"high", "low"} :
       \E k \in 1..Len(Pivots(type)) :
         Pivots(type)[k].idx < Len(candles) - 1 - config.swingLength

\* C26: a live candle whose time equals the time of the last retained bar
\* replaces that bar and changes nothing else (same length, earlier bars
\* unchanged); any other live candle is appended at the end and, only if the
\* length then exceeds 200, the oldest bar is dropped; in both cases the
\* engine is re-run on the whole updated sequence.  (A step that takes the
\* first message off the stream with the pair and the config unchanged is the
\* callback.)
C26_LiveCandleReplacesOrAppends ==
  [][(/\ socket # <<>>
      /\ socket' = Tail(socket)
      /\ currentSymbol' = currentSymbol
      /\ config' = config)
     => LET newCandle == Head(socket)
            n == Len(candles)
        IN /\ IF n > 0 /\ candles[n].time = newCandle.time
              THEN /\ Len(candles') = n
                   /\ candles'[n] = newCandle
                   /\ \A k \in 1..(n - 1) : candles'[k] = candles[k]
              ELSE IF n + 1 > 200
                   THEN candles' = SubSeq(candles, 2, n) \o <<newCandle>>
                   ELSE candles' = candles \o <<newCandle>>
           /\ analysis' = analyzePriceData(candles', config)]_vars

\* A full window whose last bar was replaced by a live candle and which then
\* took the candle of the next bar time and dropped its oldest bar.
C26_Witness ==
  /\ Len(candles) = 200
  /\ candles[1].time = 2
  /\ candles[199].time = 200
  /\ candles[199].close < candles[199].open
  /\ candles[200].time = 201

\* C27: after any sequence of initial loads, refreshes (each returning at most
\* 150 bars), changes of pair or config and live candles, the bar sequence the
\* host retains and passes to analyzePriceData never has more than 200 bars.
C27_WindowBounded == Len(candles) <= 200

\* The window stayed full through a live candle of a new bar time: the oldest
\* bar is gone and the new one is the last.
C27_Witness ==
  /\ Len(candles) = 200
  /\ candles[1].time > 1
  /\ candles[200].time > 200

\* No two entries of the list have the same origin index, and the origin
\* indices grow along the list.
StrictlyAscendingIndex(list) ==
  \A k, m \in 1..Len(list) : k < m => list[k].index < list[m].index

\* C28: within one call the imbalance detector never emits a bullish and a
\* bearish zone for the same bar triple, and the impulse-block detector never
\* a bullish and a bearish block for the same bar pair; hence in each of fvgs
\* and orderBlocks the origin indices are strictly increasing and no two
\* zones share an origin index.
C28_OneZonePerOrigin ==
  Returned =>
    /\ StrictlyAscendingIndex(analysis.fvgs)
    /\ StrictlyAscendingIndex(analysis.orderBlocks)

\* The block list holds a bullish and a bearish entry, and a zone was found
\* as well.
C28_Witness ==
  /\ Returned
  /\ Len(analysis.fvgs) >= 1
  /\ \A type \in {"bullish", "bearish"} :
       \E k \in 1..Len(analysis.orderBlocks) : analysis.orderBlocks[k].type = type

\* C29: after the user switches from pair A to pair B, no bar sequence the
\* host stores or passes to analyzePriceData mixes bars of A with bars of B,
\* under every interleaving of the switch with live messages, with the initial
\* load of B (a failed load included) and with a refresh of A still on its
\* way.
C29_NoMixedSequence ==
  \A k, m \in 1..Len(origins) : origins[k] = origins[m]

\* C29, second part: once the bars of the pair on display are stored, no later
\* event stores bars of another pair while that pair stays on display.
C29_NoReturnToOldPair ==
  [][(/\ currentSymbol' = currentSymbol
      /\ origins # <<>>
      /\ \A k \in 1..Len(origins) : origins[k] = currentSymbol)
     => \A k \in 1..Len(origins') : origins'[k] = currentSymbol]_vars

\* The word occurs in the message, both character by character.
Mentions(message, word) ==
  \E i \in 0..(Len(message) - Len(word)) :
    \A j \in 1..Len(word) : message[i + j] = word[j]

\* The message of a thrown value ("" when it has none).
MessageOf(error) == IF error = <<>> THEN <<>> ELSE error[1].message

\* The message speaks of the quota: it contains "429", "quota" or
\* "RESOURCE_EXHAUSTED".
QuotaMessage(message) ==
  \/ Mentions(message, <<"4", "2", "9">>)
  \/ Mentions(message, <<"q", "u", "o", "t", "a">>)
  \/ Mentions(message, <<"R", "E", "S", "O", "U", "R", "C", "E", "_",
                         "E", "X", "H", "A", "U", "S", "T", "E", "D">>)

====
